---- MODULE Spec2Model ----
(***************************************************************************)
(* Paper-Trader: the two polling scripts main.py and                       *)
(* papertrader_updater.py.  Each reads the tickers of column A of a        *)
(* worksheet, asks the market-data provider for the latest trade of each   *)
(* symbol in batches of CHUNK_SIZE, and writes the prices back.            *)
(*                                                                         *)
(* A cell of column A is a sequence of one-character strings, so that      *)
(* strip(), upper() and the removal of a leading "$" are computed.  A cell *)
(* of any other column is a string ("" is the blank cell).                 *)
(***************************************************************************)
EXTENDS Integers, Sequences, FiniteSets, TLC

VARIABLES
    script,       \* which of the two programs this process runs
    startup,      \* what the process finds when it starts (environment)
    CHUNK_SIZE,   \* int(os.getenv("CHUNK_SIZE", "150"))
    sheet,        \* the worksheet: column name -> sequence of cells, row 1 first
    _running,     \* the module-level shutdown flag
    pc,           \* position of the process
    col_a,        \* the column A values the iteration read
    rows_syms,    \* main.py: [(row_idx, SYMBOL), ...] of the iteration
    symbols,      \* the symbols list of the iteration
    batch_i,      \* _fetch_latest_prices: index of the next batch of the for loop
    prices,       \* _fetch_latest_prices: the dict being filled
    calls,        \* provider requests of this iteration, with their outcomes
    writes,       \* write calls of this iteration, with their outcomes
    caught,       \* the exception the iteration's catch-all handled ("" if none)
    prev,         \* what the previous completed iteration read, got and wrote
    exit_code     \* the outcome of the terminated process (-1 while alive)

vars == <<script, startup, CHUNK_SIZE, sheet, _running, pc, col_a, rows_syms,
          symbols, batch_i, prices, calls, writes, caught, prev, exit_code>>

\* ----------------------------------------------------------------- bounds

\* Rows of the worksheet, the header row included.
NumRows == 4
\* CHUNK_SIZE ranges over -MaxChunk..MaxChunk.
MaxChunk == 2
\* Rows below the header that may hold a ticker when liveness is checked.
LiveRows == 1

\* ------------------------------------------------------------------- text

Blank == <<>>
Space == <<" ">>
\* The header text of column A (row 1).
Header == <<"S", "Y", "M">>
\* What a user may have typed below the header.
RawCells ==
    { Blank, Space, <<"A", "A", "P", "L">>, <<"a", "a", "p", "l", " ">>,
      <<"$", "S", "P", "Y">>, <<"$">> }

Lowercase == <<"a", "l", "p", "s", "y", "m">>
Uppercase == <<"A", "L", "P", "S", "Y", "M">>
Whitespace == {" "}

\* str.upper(), one character
upper_char(c) ==
    IF \E i \in 1..Len(Lowercase) : Lowercase[i] = c
    THEN Uppercase[CHOOSE i \in 1..Len(Lowercase) : Lowercase[i] = c]
    ELSE c

\* str.upper()
upper(s) == [i \in 1..Len(s) |-> upper_char(s[i])]

RECURSIVE lstrip(_)
lstrip(s) == IF s # <<>> /\ Head(s) \in Whitespace THEN lstrip(Tail(s)) ELSE s

RECURSIVE rstrip(_)
rstrip(s) ==
    IF s # <<>> /\ s[Len(s)] \in Whitespace THEN rstrip(SubSeq(s, 1, Len(s) - 1)) ELSE s

\* str.strip()
strip(s) == rstrip(lstrip(s))

\* sym.startswith("$") -> sym[1:]
drop_dollar(sym) == IF sym # <<>> /\ Head(sym) = "$" THEN Tail(sym) ELSE sym

\* ------------------------------------------------------------ collections

Range(f) == {f[i] : i \in DOMAIN f}

Min(a, b) == IF a < b THEN a ELSE b

\* Python's range(start, stop, step) for step # 0, as the sequence it yields.
RECURSIVE range(_, _, _)
range(start, stop, step) ==
    IF (step > 0 /\ start < stop) \/ (step < 0 /\ start > stop)
    THEN <<start>> \o range(start + step, stop, step)
    ELSE <<>>

\* Python's seq[i:j] for 0 <= i and 0 <= j (0-based, j exclusive, clipped).
slice(seq, i, j) == SubSeq(seq, i + 1, Min(j, Len(seq)))

\* list(dict.fromkeys(seq)): the distinct elements in first-occurrence order.
RECURSIVE fromkeys(_)
fromkeys(seq) ==
    IF seq = <<>> THEN <<>>
    ELSE LET init == fromkeys(SubSeq(seq, 1, Len(seq) - 1))
             last == seq[Len(seq)]
         IN IF last \in Range(init) THEN init ELSE Append(init, last)

\* dict.get(key): the value, or None (here "None") when the key is absent.
dict_get(d, key) == IF key \in DOMAIN d THEN d[key] ELSE "None"

\* d1 updated with the items of d2.
dict_update(d1, d2) ==
    [k \in DOMAIN d1 \cup DOMAIN d2 |-> IF k \in DOMAIN d2 THEN d2[k] ELSE d1[k]]

\* -------------------------------------------------------------- worksheet

Columns == {"A", "B", "C", "D"}
Digits == <<"0", "1", "2", "3", "4", "5", "6", "7", "8", "9">>

\* str(n) of the f-strings, for n >= 0, as characters.
RECURSIVE str_int(_)
str_int(n) ==
    IF n < 10 THEN <<Digits[n + 1]>>
    ELSE str_int(n \div 10) \o <<Digits[(n % 10) + 1]>>

\* The number a sequence of digit characters denotes.
RECURSIVE int_str(_)
int_str(ds) ==
    IF ds = <<>> THEN 0
    ELSE 10 * int_str(SubSeq(ds, 1, Len(ds) - 1))
         + (CHOOSE d \in 0..9 : Digits[d + 1] = ds[Len(ds)])

\* The cell an A1 address such as C12 names (one column letter, then the row).
a1_cell(addr) == [col |-> Head(addr), row |-> int_str(Tail(addr))]

\* The cells an A1 range such as B2:B4 names, top to bottom.
a1_range(addr) ==
    LET colon == CHOOSE i \in 1..Len(addr) : addr[i] = ":"
        first == a1_cell(SubSeq(addr, 1, colon - 1))
        last == a1_cell(SubSeq(addr, colon + 1, Len(addr)))
    IN [i \in 1..(last.row - first.row + 1) |-> [col |-> first.col, row |-> first.row + i - 1]]

\* One cell of the worksheet set to a value; a cell outside the grid is ignored.
set_cell(sh, cell, value) ==
    IF cell.col \in Columns /\ cell.row \in 1..Len(sh[cell.col])
    THEN [sh EXCEPT ![cell.col][cell.row] = value]
    ELSE sh

\* ws.col_values(1): column A from row 1 up to its last non-empty cell.
RECURSIVE col_values(_)
col_values(column) ==
    IF column # <<>> /\ column[Len(column)] = Blank
    THEN col_values(SubSeq(column, 1, Len(column) - 1))
    ELSE column

\* ws.batch_update(updates, value_input_option="RAW"): every update applied to the
\* cell its range names, in order.
RECURSIVE batch_update(_, _)
batch_update(sh, updates) ==
    IF updates = <<>> THEN sh
    ELSE batch_update(set_cell(sh, a1_cell(Head(updates).range), Head(updates).values),
                      Tail(updates))

\* ws.update(range, values, value_input_option="RAW"): the i-th value into the i-th
\* cell of the range.
RECURSIVE ws_update(_, _, _)
ws_update(sh, cells, values) ==
    IF cells = <<>> \/ values = <<>> THEN sh
    ELSE ws_update(set_cell(sh, Head(cells), Head(values)), Tail(cells), Tail(values))

\* -------------------------------------------- main.py: row-preserving read/write

\* A variant that does not strip the cell.
row_entry_unstripped(row_idx, raw) ==
    LET sym == upper(raw)
    IN IF sym # <<>> THEN <<[row |-> row_idx, sym |-> drop_dollar(sym)]>> ELSE <<>>

\* The loop body of _get_rows_and_symbols for one cell: the (row_idx, sym) pair it
\* appends, if any.
row_entry(row_idx, raw) ==
    LET sym == upper(strip(raw))
    IN IF sym # <<>> THEN <<[row |-> row_idx, sym |-> drop_dollar(sym)]>> ELSE <<>>

\* A variant that numbers the rows of the tickers it keeps, not of the cells.
RECURSIVE rows_compacted(_)
rows_compacted(values) ==
    IF Len(values) <= 1 THEN <<>>
    ELSE LET init == rows_compacted(SubSeq(values, 1, Len(values) - 1))
         IN init \o row_entry(Len(init) + 2, values[Len(values)])

\* _get_rows_and_symbols, given the values ws.col_values(1) returned.
RECURSIVE _get_rows_and_symbols(_)
_get_rows_and_symbols(values) ==
    IF Len(values) <= 1 THEN <<>>
    ELSE _get_rows_and_symbols(SubSeq(values, 1, Len(values) - 1))
         \o row_entry(Len(values), values[Len(values)])

\* symbols = [s for _, s in rows_syms]
symbols_of(rs) == [i \in 1..Len(rs) |-> rs[i].sym]

\* A variant that addresses column D.
build_updates_column_d(rs, price_map) ==
    [i \in 1..Len(rs) |->
        LET price == dict_get(price_map, rs[i].sym)
        IN [range |-> <<"D">> \o str_int(rs[i].row),
            values |-> IF price # "None" THEN price ELSE ""]]

\* A variant that updates only the cells whose value changes.
build_updates_changed_only(rs, price_map) ==
    LET value(i) ==
            LET price == dict_get(price_map, rs[i].sym)
            IN IF price # "None" THEN price ELSE ""
        full == [i \in 1..Len(rs) |->
                    [range |-> <<"C">> \o str_int(rs[i].row), values |-> value(i)]]
    IN SelectSeq(full, LAMBDA u : sheet.C[int_str(Tail(u.range))] # u.values)

\* A variant that prices only the first row of a symbol.
build_updates_first_row(rs, price_map) ==
    [i \in 1..Len(rs) |->
        LET price == dict_get(price_map, rs[i].sym)
            repeated == \E j \in 1..(i - 1) : rs[j].sym = rs[i].sym
        IN [range |-> <<"C">> \o str_int(rs[i].row),
            values |-> IF price # "None" /\ ~repeated THEN price ELSE ""]]

\* A variant that writes the whole block from row 2 to the last ticker row, blank
\* where a row has no ticker.
build_updates_contiguous(rs, price_map) ==
    LET last == IF rs = <<>> THEN 1 ELSE rs[Len(rs)].row
        value(r) ==
            IF \E i \in 1..Len(rs) : rs[i].row = r
            THEN LET price == dict_get(price_map, rs[CHOOSE i \in 1..Len(rs) : rs[i].row = r].sym)
                 IN IF price # "None" THEN price ELSE ""
            ELSE ""
    IN [k \in 1..(last - 1) |-> [range |-> <<"C">> \o str_int(k + 1), values |-> value(k + 1)]]

\* The updates list _write_prices_exact_rows builds.
build_updates(rs, price_map) ==
    [i \in 1..Len(rs) |->
        LET price == dict_get(price_map, rs[i].sym)
        IN [range |-> <<"C">> \o str_int(rs[i].row),
            values |-> IF price # "None" THEN price ELSE ""]]

\* ------------------------------------- papertrader_updater.py: read/write

\* _get_tickers, given the values ws.col_values(1) returned.
RECURSIVE _get_tickers(_)
_get_tickers(values) ==
    IF Len(values) <= 1 THEN <<>>
    ELSE _get_tickers(SubSeq(values, 1, Len(values) - 1))
         \o (IF strip(values[Len(values)]) # <<>>
             THEN <<upper(strip(values[Len(values)]))>>
             ELSE <<>>)

\* The range f"{column}2:{column}{len(symbols)+1}" of _write_prices.
column_range(column, syms) == <<column, "2", ":", column>> \o str_int(Len(syms) + 1)

\* updates_colB of _write_prices.
updates_colB(syms, timestamp) == [i \in 1..Len(syms) |-> timestamp]

\* updates_colC of _write_prices.
updates_colC(syms, price_map) ==
    [i \in 1..Len(syms) |->
        LET price == dict_get(price_map, syms[i])
        IN IF price # "None" THEN price ELSE ""]

\* --------------------------------------------------------- price fetching

\* _chunks(seq, size) for size # 0, as the sequence of slices it yields.
_chunks(seq, size) ==
    LET starts == range(0, Len(seq), size)
    IN [k \in 1..Len(starts) |-> slice(seq, starts[k], starts[k] + size)]

\* A variant that keeps the duplicates.
symbols_as_read(syms) == syms

\* unique_symbols = list(dict.fromkeys(symbols))
unique_symbols(syms) == fromkeys(syms)

\* The batches the for loop of _fetch_latest_prices iterates over; only main.py
\* deduplicates the symbols first.
batches(prog, syms, size) ==
    IF prog = "main.py" THEN _chunks(unique_symbols(syms), size) ELSE _chunks(syms, size)

\* The provider's latest trade prices: the listed symbols.
AAPL == <<"A", "A", "P", "L">>
SPY == <<"S", "P", "Y">>
Listed == {AAPL, SPY}
quote(sym) == IF sym = AAPL THEN "172.34" ELSE "431.1"
Numeric == {"172.34", "431.1"}

\* client.get_stock_latest_trade(req) when it returns: a trade for every listed
\* symbol of the batch; the trades of the symbols in bad carry no usable price.
latest_trade(batch, bad) ==
    [s \in (Range(batch) \cap Listed) |-> IF s \in bad THEN "n/a" ELSE quote(s)]

\* The inner loop over result.items(): float(trade.price) raises for a price that
\* is not a number, and the symbol is skipped.
parsed_prices(result) ==
    LET ok == {s \in DOMAIN result : result[s] \in Numeric}
    IN [s \in ok |-> result[s]]

\* Keys a response may carry that no cell of column A ever yields: a symbol in
\* another case, a symbol nobody asked for.
ForeignKeys == {<<"a", "a", "p", "l">>, <<"M", "S", "F", "T">>}

\* client.get_stock_latest_trade(req) when the mapping it returns is not held to
\* the request: the trades of latest_trade, and a trade under each key of extra.
latest_trade_any(batch, bad, extra) ==
    [s \in (Range(batch) \cap Listed) \cup extra |-> IF s \in bad THEN "n/a" ELSE quote(s)]

\* ------------------------------------------------------------------ state

Scripts == {"main.py", "papertrader_updater.py"}
ChunkSizes == (0 - MaxChunk)..MaxChunk
Startups == {"ok", "no_alpaca_keys", "no_google_creds", "open_fails", "no_worksheet"}
\* What time.strftime returns when an iteration of the updater writes.
Timestamps == {"2026-01-01 00:00:00"}

NoDict == <<>>
NoPrev == [col |-> <<>>, calls |-> <<>>, writes |-> <<>>, caught |-> "none", sheet |-> <<>>]

\* A worksheet whose column A is the given one; the other columns hold what earlier
\* runs and the user left there.
sheet_with(column) ==
    [A |-> column,
     B |-> [r \in 1..Len(column) |-> IF r = 1 THEN "Last Updated (UTC)" ELSE "earlier"],
     C |-> [r \in 1..Len(column) |-> IF r = 1 THEN "current price" ELSE "9.99"],
     D |-> [r \in 1..Len(column) |-> "memo"]]

\* sh.add_worksheet(...) followed by ws.update("A1:C1", [[a, b, c]]).
new_worksheet(a, b, c) ==
    [A |-> [r \in 1..NumRows |-> IF r = 1 THEN a ELSE Blank],
     B |-> [r \in 1..NumRows |-> IF r = 1 THEN b ELSE ""],
     C |-> [r \in 1..NumRows |-> IF r = 1 THEN c ELSE ""],
     D |-> [r \in 1..NumRows |-> ""]]

InitialColumns == {<<Header>> \o data : data \in [1..(NumRows - 1) -> RawCells]}

Init ==
    /\ script \in Scripts
    /\ startup \in Startups
    /\ IF startup = "ok"
       THEN /\ CHUNK_SIZE \in ChunkSizes
            /\ \E column \in InitialColumns : sheet = sheet_with(column)
       ELSE /\ CHUNK_SIZE = MaxChunk
            /\ sheet = new_worksheet(Blank, "", "")
    /\ _running = TRUE
    /\ pc = "boot"
    /\ col_a = <<>>
    /\ rows_syms = <<>>
    /\ symbols = <<>>
    /\ batch_i = 1
    /\ prices = NoDict
    /\ calls = <<>>
    /\ writes = <<>>
    /\ caught = ""
    /\ prev = NoPrev
    /\ exit_code = 0 - 1

config == <<script, startup, CHUNK_SIZE>>

\* ---------------------------------------------------------------- startup

\* A variant that goes on without the sheet credentials or the sheet.
BootUnchecked ==
    /\ pc = "boot"
    /\ IF startup = "no_alpaca_keys"
       THEN /\ pc' = "exited"
            /\ exit_code' = 1
       ELSE /\ pc' = "loop"
            /\ UNCHANGED exit_code
    /\ UNCHANGED <<config, sheet, _running, col_a, rows_syms, symbols, batch_i, prices,
                   calls, writes, caught, prev>>

\* Module level and the head of main(): the credential checks, the gspread client,
\* _open_worksheet.
Boot ==
    /\ pc = "boot"
    /\ IF startup \in {"no_alpaca_keys", "no_google_creds", "open_fails"}
       THEN /\ pc' = "exited"
            /\ exit_code' = 1
            /\ UNCHANGED sheet
       ELSE /\ pc' = "loop"
            /\ UNCHANGED exit_code
            /\ sheet' = IF startup = "no_worksheet"
                        THEN IF script = "main.py"
                             THEN new_worksheet(<<"a", "s", "s", "e", "t">>, "", "current price")
                             ELSE new_worksheet(<<"T", "i", "c", "k", "e", "r">>,
                                                "Last Updated (UTC)", "Price")
                        ELSE sheet
    /\ UNCHANGED <<config, _running, col_a, rows_syms, symbols, batch_i, prices, calls,
                   writes, caught, prev>>

\* A variant without the handler: the signal ends the process where it is.
HandleSigtermDefault ==
    /\ pc \notin {"boot", "exited", "done"}
    /\ _running
    /\ _running' = FALSE
    /\ pc' = "done"
    /\ exit_code' = 0
    /\ UNCHANGED <<config, sheet, col_a, rows_syms, symbols, batch_i, prices, calls,
                   writes, caught, prev>>

\* _handle_sigterm: SIGTERM or SIGINT is delivered.
HandleSigterm ==
    /\ pc \notin {"boot", "exited", "done"}
    /\ _running
    /\ _running' = FALSE
    /\ UNCHANGED <<config, sheet, pc, col_a, rows_syms, symbols, batch_i, prices, calls,
                   writes, caught, prev, exit_code>>

\* The user clears a cell of a column A that has no blank cell below the header,
\* while the process runs: one removal, at any point of any iteration.
UserRemovesTicker ==
    /\ pc \notin {"boot", "exited", "done"}
    /\ \A q \in 2..Len(sheet.A) : sheet.A[q] # Blank
    /\ \E r \in 2..Len(sheet.A) :
          sheet' = [sheet EXCEPT !.A[r] = Blank]
    /\ UNCHANGED <<config, _running, pc, col_a, rows_syms, symbols, batch_i, prices, calls,
                   writes, caught, prev, exit_code>>

\* ------------------------------------------------------------ the while loop

\* A variant that loops while True.
LoopForever ==
    /\ pc = "loop"
    /\ pc' = "read"
    /\ UNCHANGED <<config, sheet, _running, col_a, rows_syms, symbols, batch_i, prices,
                   calls, writes, caught, prev, exit_code>>

\* while _running: ... print("Papertrader updater shutting down.")
LoopTest ==
    /\ pc = "loop"
    /\ IF _running
       THEN /\ pc' = "read"
            /\ UNCHANGED exit_code
       ELSE /\ pc' = "done"
            /\ exit_code' = 0
    /\ UNCHANGED <<config, sheet, _running, col_a, rows_syms, symbols, batch_i, prices,
                   calls, writes, caught, prev>>

\* A variant without the try: the exception ends the process.
propagate(what) ==
    /\ caught' = what
    /\ pc' = "exited"

\* The iteration ends in  except Exception as e  of main().
catch(what) ==
    /\ caught' = what
    /\ pc' = "sleep"

\* What an iteration leaves behind for the comparison with the next one: how it
\* ended and, for main.py, what it read, got and wrote.
record ==
    IF script = "main.py"
    THEN [col |-> col_a, calls |-> calls, writes |-> writes, caught |-> caught,
          sheet |-> sheet]
    ELSE [col |-> <<>>, calls |-> <<>>, writes |-> <<>>, caught |-> caught, sheet |-> <<>>]

\* time.sleep(POLL_SECONDS): at the end of the iteration, or on the "No tickers"
\* path, where continue follows it.  The locals of the iteration die with it.
sleep_at(where) ==
    /\ pc = where
    /\ pc' = "loop"
    /\ col_a' = <<>>
    /\ rows_syms' = <<>>
    /\ symbols' = <<>>
    /\ batch_i' = 1
    /\ prices' = NoDict
    /\ calls' = <<>>
    /\ writes' = <<>>
    /\ caught' = ""
    /\ UNCHANGED <<config, sheet, _running, exit_code>>

Sleep == sleep_at("sleep") /\ UNCHANGED prev

IdleSleep == sleep_at("idle") /\ UNCHANGED prev

\* --------------------------------------------------------- reading column A

\* main.py: rows_syms = _get_rows_and_symbols(ws); symbols = [...]; if not symbols: ...
ReadRows ==
    /\ script = "main.py"
    /\ pc = "read"
    /\ \/ /\ catch("col_values")
          /\ UNCHANGED <<col_a, rows_syms, symbols>>
       \/ /\ col_a' = col_values(sheet.A)
          /\ rows_syms' = _get_rows_and_symbols(col_a')
          /\ symbols' = symbols_of(rows_syms')
          /\ pc' = IF symbols' = <<>> THEN "idle" ELSE "fetch"
          /\ UNCHANGED caught
    /\ UNCHANGED <<config, sheet, _running, batch_i, prices, calls, writes, prev, exit_code>>

\* papertrader_updater.py: symbols = _get_tickers(ws); if not symbols: ...
ReadTickers ==
    /\ script = "papertrader_updater.py"
    /\ pc = "read"
    /\ \/ /\ catch("col_values")
          /\ UNCHANGED <<col_a, symbols>>
       \/ /\ col_a' = col_values(sheet.A)
          /\ symbols' = _get_tickers(col_a')
          /\ pc' = IF symbols' = <<>> THEN "idle" ELSE "fetch"
          /\ UNCHANGED caught
    /\ UNCHANGED <<config, sheet, _running, rows_syms, batch_i, prices, calls, writes, prev,
                   exit_code>>

\* ------------------------------------------------------ _fetch_latest_prices

\* for batch in _chunks(..., CHUNK_SIZE): range() raises ValueError for a step of
\* zero, outside the try of the loop body.
ChunksRaises ==
    /\ pc = "fetch"
    /\ CHUNK_SIZE = 0
    /\ catch("range")
    /\ UNCHANGED <<config, sheet, _running, col_a, rows_syms, symbols, batch_i, prices,
                   calls, writes, prev, exit_code>>

\* A variant whose except clause does not continue: the failure of a request ends
\* the iteration.
FetchBatchOrAbort ==
    /\ pc = "fetch"
    /\ CHUNK_SIZE # 0
    /\ batch_i <= Len(batches(script, symbols, CHUNK_SIZE))
    /\ LET batch == batches(script, symbols, CHUNK_SIZE)[batch_i]
       IN \/ /\ calls' = Append(calls, [batch |-> batch, raised |-> TRUE, result |-> NoDict])
             /\ caught' = "request"
             /\ pc' = "sleep"
             /\ UNCHANGED prices
          \/ \E bad \in SUBSET (Range(batch) \cap Listed) :
                LET result == latest_trade(batch, bad)
                IN /\ calls' = Append(calls, [batch |-> batch, raised |-> FALSE,
                                              result |-> result])
                   /\ prices' = dict_update(prices, parsed_prices(result))
                   /\ UNCHANGED <<pc, caught>>
    /\ batch_i' = batch_i + 1
    /\ UNCHANGED <<config, sheet, _running, col_a, rows_syms, symbols, writes, prev,
                   exit_code>>

\* One pass of the for loop: the request of the next batch raises (and the loop
\* continues), or returns and its prices are recorded.
FetchBatch ==
    /\ pc = "fetch"
    /\ CHUNK_SIZE # 0
    /\ batch_i <= Len(batches(script, symbols, CHUNK_SIZE))
    /\ LET batch == batches(script, symbols, CHUNK_SIZE)[batch_i]
       IN \/ /\ calls' = Append(calls, [batch |-> batch, raised |-> TRUE, result |-> NoDict])
             /\ UNCHANGED prices
          \/ \E bad \in SUBSET (Range(batch) \cap Listed) :
                LET result == latest_trade(batch, bad)
                IN /\ calls' = Append(calls, [batch |-> batch, raised |-> FALSE,
                                              result |-> result])
                   /\ prices' = dict_update(prices, parsed_prices(result))
    /\ batch_i' = batch_i + 1
    /\ UNCHANGED <<config, sheet, _running, pc, col_a, rows_syms, symbols, writes, caught,
                   prev, exit_code>>

\* The for loop is over: return prices.
fetched == pc = "fetch" /\ CHUNK_SIZE # 0 /\ batch_i > Len(batches(script, symbols, CHUNK_SIZE))

\* One pass of the for loop with a provider whose response may carry one key more
\* than the listed symbols of the batch.
FetchBatchAnyResponse ==
    /\ pc = "fetch"
    /\ CHUNK_SIZE # 0
    /\ batch_i <= Len(batches(script, symbols, CHUNK_SIZE))
    /\ LET batch == batches(script, symbols, CHUNK_SIZE)[batch_i]
       IN \/ /\ calls' = Append(calls, [batch |-> batch, raised |-> TRUE, result |-> NoDict])
             /\ UNCHANGED prices
          \/ \E bad \in SUBSET (Range(batch) \cap Listed) :
             \E extra \in SUBSET ((Listed \cup ForeignKeys) \ Range(batch)) :
                /\ Cardinality(extra) <= 1
                /\ LET result == latest_trade_any(batch, bad, extra)
                   IN /\ calls' = Append(calls, [batch |-> batch, raised |-> FALSE,
                                                 result |-> result])
                      /\ prices' = dict_update(prices, parsed_prices(result))
    /\ batch_i' = batch_i + 1
    /\ UNCHANGED <<config, sheet, _running, pc, col_a, rows_syms, symbols, writes, caught,
                   prev, exit_code>>

\* ---------------------------------------------------------------- writing

\* A variant that writes cell by cell: when the call for the second cell raises,
\* the first cell is written already.
WriteCellByCell ==
    /\ script = "main.py"
    /\ fetched
    /\ LET updates == build_updates(rows_syms, prices)
       IN \/ /\ writes' = Append(writes, [updates |-> updates, raised |-> FALSE])
             /\ sheet' = batch_update(sheet, updates)
             /\ pc' = "sleep"
             /\ UNCHANGED caught
          \/ /\ writes' = Append(writes, [updates |-> updates, raised |-> TRUE])
             /\ catch("batch_update")
             /\ sheet' = batch_update(sheet, SubSeq(updates, 1, 1))
    /\ UNCHANGED <<config, _running, col_a, rows_syms, symbols, batch_i, prices, calls, prev,
                   exit_code>>

\* main.py: _write_prices_exact_rows(ws, rows_syms, price_map): the one batch_update
\* call, which is applied or raises.
WriteExactRows ==
    /\ script = "main.py"
    /\ fetched
    /\ LET updates == build_updates(rows_syms, prices)
       IN \/ /\ writes' = Append(writes, [updates |-> updates, raised |-> FALSE])
             /\ sheet' = batch_update(sheet, updates)
             /\ pc' = "sleep"
             /\ UNCHANGED caught
          \/ /\ writes' = Append(writes, [updates |-> updates, raised |-> TRUE])
             /\ catch("batch_update")
             /\ UNCHANGED sheet
    /\ UNCHANGED <<config, _running, col_a, rows_syms, symbols, batch_i, prices, calls, prev,
                   exit_code>>

\* papertrader_updater.py: _write_prices up to its first ws.update, of column B.
WriteColB ==
    /\ script = "papertrader_updater.py"
    /\ fetched
    /\ \E timestamp \in Timestamps :
          LET range_b == column_range("B", symbols)
              values == updates_colB(symbols, timestamp)
          IN \/ /\ writes' = Append(writes, [range |-> range_b, values |-> values,
                                             raised |-> FALSE])
                /\ sheet' = ws_update(sheet, a1_range(range_b), values)
                /\ pc' = "write_c"
                /\ UNCHANGED caught
             \/ /\ writes' = Append(writes, [range |-> range_b, values |-> values,
                                             raised |-> TRUE])
                /\ catch("update")
                /\ UNCHANGED sheet
    /\ UNCHANGED <<config, _running, col_a, rows_syms, symbols, batch_i, prices, calls, prev,
                   exit_code>>

\* papertrader_updater.py: the second ws.update of _write_prices, of column C.
WriteColC ==
    /\ script = "papertrader_updater.py"
    /\ pc = "write_c"
    /\ LET range_c == column_range("C", symbols)
           values == updates_colC(symbols, prices)
       IN \/ /\ writes' = Append(writes, [range |-> range_c, values |-> values,
                                          raised |-> FALSE])
             /\ sheet' = ws_update(sheet, a1_range(range_c), values)
             /\ pc' = "sleep"
             /\ UNCHANGED caught
          \/ /\ writes' = Append(writes, [range |-> range_c, values |-> values,
                                          raised |-> TRUE])
             /\ catch("update")
             /\ UNCHANGED sheet
    /\ UNCHANGED <<config, _running, col_a, rows_syms, symbols, batch_i, prices, calls, prev,
                   exit_code>>

\* ---------------------------------------------------------- specifications

Step ==
    \/ Boot
    \/ LoopTest
    \/ ReadRows
    \/ ReadTickers
    \/ ChunksRaises
    \/ FetchBatch
    \/ WriteExactRows
    \/ WriteColB
    \/ WriteColC

Next ==
    \/ Step
    \/ Sleep
    \/ IdleSleep
    \/ HandleSigterm

Spec == Init /\ [][Next]_vars

\* The first two iterations of a process that receives no signal, the second one
\* keeping what the first read, got and wrote.
SleepRecorded == sleep_at("sleep") /\ prev = NoPrev /\ prev' = record

IdleSleepRecorded == sleep_at("idle") /\ prev = NoPrev /\ prev' = record

NextTwoCycles ==
    \/ Step
    \/ SleepRecorded
    \/ IdleSleepRecorded

TwoCycles == Init /\ [][NextTwoCycles]_vars

\* Every collaborator call and every sleep returns.  The columns are those with
\* tickers in the first LiveRows rows below the header only.
InitLive == Init /\ \A r \in (LiveRows + 2)..Len(sheet.A) : sheet.A[r] = Blank

LiveSpec == InitLive /\ [][Next]_vars /\ WF_vars(Step \/ Sleep \/ IdleSleep)

\* main.py started with its credentials and its sheet.
InitMain == Init /\ script = "main.py" /\ startup = "ok"

\* main.py alone, signals included.
NextMain ==
    \/ Boot
    \/ LoopTest
    \/ ReadRows
    \/ ChunksRaises
    \/ FetchBatch
    \/ WriteExactRows
    \/ Sleep
    \/ IdleSleep
    \/ HandleSigterm

MainLoop == InitMain /\ [][NextMain]_vars

\* The first two iterations of main.py, no signal, the second one keeping what
\* the first read, got and wrote.
NextMainTwoCycles ==
    \/ Boot
    \/ LoopTest
    \/ ReadRows
    \/ ChunksRaises
    \/ FetchBatch
    \/ WriteExactRows
    \/ SleepRecorded
    \/ IdleSleepRecorded

MainTwoCycles == InitMain /\ [][NextMainTwoCycles]_vars

\* main.py, no signal, with a provider that is not held to the request.
NextAnyResponse ==
    \/ Boot
    \/ LoopTest
    \/ ReadRows
    \/ ChunksRaises
    \/ FetchBatchAnyResponse
    \/ WriteExactRows
    \/ Sleep
    \/ IdleSleep

AnyResponse == InitMain /\ [][NextAnyResponse]_vars

\* main.py with batches of MaxChunk symbols, no signal, and a user who removes a
\* ticker from column A.
InitEdited == InitMain /\ CHUNK_SIZE = MaxChunk

NextEdited ==
    \/ Boot
    \/ LoopTest
    \/ ReadRows
    \/ FetchBatch
    \/ WriteExactRows
    \/ Sleep
    \/ IdleSleep
    \/ UserRemovesTicker

Edited == InitEdited /\ [][NextEdited]_vars

\* ------------------------------------------------- vocabulary of the claims

IsMain == script = "main.py"

\* The rows below the header whose column A cell, as read, holds more than whitespace.
PopulatedRows(column) ==
    {r \in 2..Len(column) : \E i \in 1..Len(column[r]) : column[r][i] \notin Whitespace}

\* The updates of the write call main.py issued in this iteration, if any.
IssuedUpdates == IF writes = <<>> THEN <<>> ELSE writes[1].updates

\* The cell an update of main.py targets.
Target(u) == a1_cell(u.range)

\* The distinct elements of a sequence, in first-occurrence order.
Distinct(seq) ==
    LET firsts == {i \in 1..Len(seq) : \A j \in 1..(i - 1) : seq[j] # seq[i]}
        nth[k \in 0..Len(seq)] ==
            IF k = 0 THEN 0 ELSE CHOOSE i \in firsts : i > nth[k - 1] /\ \A j \in firsts : j > nth[k - 1] => i <= j
    IN [k \in 1..Cardinality(firsts) |-> seq[nth[k]]]

RECURSIVE Concat(_)
Concat(seqs) == IF seqs = <<>> THEN <<>> ELSE Head(seqs) \o Concat(Tail(seqs))

\* The batches requested so far in this iteration.
Requested == [k \in 1..Len(calls) |-> calls[k].batch]

\* The price a returned request of this iteration carried for a symbol, if any.
Returned(sym) ==
    {calls[k].result[sym] : k \in {j \in 1..Len(calls) :
        ~calls[j].raised /\ sym \in DOMAIN calls[j].result /\ calls[j].result[sym] \in Numeric}}

\* The symbols of the requests of this iteration that raised.
InFailedBatch(sym) == \E k \in 1..Len(calls) : calls[k].raised /\ sym \in Range(calls[k].batch)

\* The text of a cell without its whitespace and "$", in upper case.
TextSymbol(cell) == upper(SelectSeq(cell, LAMBDA c : c \notin Whitespace \cup {"$"}))

\* The iteration of main.py is over and got past the read of column A.
CycleDone == pc = "sleep" /\ caught # "col_values"

\* ------------------------------------------------------------------ claims

\* C1 (row fidelity, main.py): the updates of a write call target, in increasing
\* order and one each, exactly the rows of column A (as read) that hold a ticker,
\* and the value for a row is blank or a price the provider returned for the text
\* of that very row; no update lands on a compacted or renumbered row.
C1_RowFidelity ==
    IsMain =>
        \A w \in 1..Len(writes) :
            LET ups == writes[w].updates
            IN /\ Len(ups) = Cardinality(PopulatedRows(col_a))
               /\ \A i \in 1..Len(ups) :
                    /\ Target(ups[i]).row \in PopulatedRows(col_a)
                    /\ ups[i].values \in {""} \cup Returned(TextSymbol(col_a[Target(ups[i]).row]))
               /\ \A i, j \in 1..Len(ups) : i < j => Target(ups[i]).row < Target(ups[j]).row

\* Rows 2 and 4 hold tickers, row 3 is blank, and the applied updates are at rows
\* 2 and 4 exactly, with a price.
C1_Witness ==
    /\ IsMain
    /\ pc = "sleep"
    /\ Len(writes) = 1
    /\ ~writes[1].raised
    /\ Len(col_a) = 4
    /\ col_a[3] = Blank
    /\ PopulatedRows(col_a) = {2, 4}
    /\ [i \in 1..Len(IssuedUpdates) |-> Target(IssuedUpdates[i]).row] = <<2, 4>>
    /\ sheet.C[2] \in Numeric
    /\ sheet.C[4] \in Numeric
    /\ sheet.C[3] = "9.99"

\* C2 (main.py): an iteration with tickers that gets to the write builds one update
\* per (row, symbol) pair; its value is the price_map entry of the pair's symbol,
\* blank when there is none; pairs with the same symbol get the same value, which
\* is the returned price when a request returned one for the symbol.
C2_UpdateValues ==
    IsMain =>
        /\ (CycleDone /\ caught # "range" /\ rows_syms # <<>>) => Len(writes) = 1
        /\ \A w \in 1..Len(writes) :
            LET ups == writes[w].updates
            IN /\ Len(ups) = Len(rows_syms)
               /\ \A i \in 1..Len(ups) :
                    LET sym == rows_syms[i].sym
                    IN /\ ups[i].values = (IF sym \in DOMAIN prices THEN prices[sym] ELSE "")
                       /\ Returned(sym) # {} => ups[i].values \in Returned(sym)
                       /\ \A j \in 1..Len(ups) :
                            rows_syms[j].sym = sym => ups[j].values = ups[i].values

\* Two rows with the same symbol both received its price.
C2_Witness ==
    /\ IsMain
    /\ pc = "sleep"
    /\ Len(writes) = 1
    /\ ~writes[1].raised
    /\ \E i, j \in 1..Len(rows_syms) :
          /\ i # j
          /\ rows_syms[i].sym = rows_syms[j].sym
          /\ IssuedUpdates[i].values = "172.34"
          /\ sheet.C[rows_syms[i].row] = "172.34"
          /\ sheet.C[rows_syms[j].row] = "172.34"

\* C3 (partial failure isolation, main.py): after a request of the iteration has
\* raised, the loop is still fetching or the iteration has issued its write with
\* every batch requested; the prices the other requests returned are in the
\* price map; the rows of a symbol with a returned price get that price and the
\* rows of the symbols of a failed batch get blank.
C3_PartialFailure ==
    (IsMain /\ \E k \in 1..Len(calls) : calls[k].raised) =>
        /\ pc = "fetch" \/ (pc = "sleep" /\ Len(writes) = 1)
        /\ \A k \in 1..Len(calls) : ~calls[k].raised =>
              \A s \in DOMAIN calls[k].result :
                  calls[k].result[s] \in Numeric =>
                      s \in DOMAIN prices /\ prices[s] = calls[k].result[s]
        /\ pc = "sleep" =>
              /\ Concat(Requested) = Distinct(symbols)
              /\ \A i \in 1..Len(rows_syms) :
                    LET sym == rows_syms[i].sym
                        value == IssuedUpdates[i].values
                    IN /\ Target(IssuedUpdates[i]).row = rows_syms[i].row
                       /\ Returned(sym) # {} => value \in Returned(sym)
                       /\ InFailedBatch(sym) => value = ""
                       /\ ~writes[1].raised => sheet.C[rows_syms[i].row] = value

\* One batch raised, another returned a price, and the write put the price in the
\* row of the one and blank in the row of the other.
C3_Witness ==
    /\ IsMain
    /\ pc = "sleep"
    /\ Len(writes) = 1
    /\ ~writes[1].raised
    /\ Len(calls) >= 2
    /\ calls[1].raised
    /\ \E i, j \in 1..Len(rows_syms) :
          /\ InFailedBatch(rows_syms[i].sym)
          /\ sheet.C[rows_syms[i].row] = ""
          /\ Returned(rows_syms[j].sym) # {}
          /\ sheet.C[rows_syms[j].row] \in Numeric

\* C4 (batch completeness, main.py, CHUNK_SIZE > 0): the batches requested in an
\* iteration are consecutive slices of the distinct symbols in first-occurrence
\* order: all of them once the loop is over, each of CHUNK_SIZE symbols but
\* possibly the last, no symbol in two batches.
C4_BatchesPartition ==
    (IsMain /\ CHUNK_SIZE > 0) =>
        LET all == Distinct(symbols)
            req == Concat(Requested)
        IN /\ Len(req) <= Len(all)
           /\ req = SubSeq(all, 1, Len(req))
           /\ CycleDone => req = all
           /\ \A k \in 1..Len(Requested) :
                /\ Len(Requested[k]) >= 1
                /\ Len(Requested[k]) <= CHUNK_SIZE
                /\ k < Len(Requested) => Len(Requested[k]) = CHUNK_SIZE
                /\ \A l \in 1..Len(Requested) :
                      l # k => Range(Requested[k]) \cap Range(Requested[l]) = {}
           /\ CycleDone =>
                \A sym \in Range(symbols) :
                    Cardinality({k \in 1..Len(Requested) : sym \in Range(Requested[k])}) = 1

\* Three distinct symbols with CHUNK_SIZE 2: a batch of two, then a batch of one.
C4_Witness ==
    /\ IsMain
    /\ CHUNK_SIZE = 2
    /\ CycleDone
    /\ Len(Requested) = 2
    /\ Len(Requested[1]) = 2
    /\ Len(Requested[2]) = 1
    /\ Cardinality(Range(symbols)) = 3

\* Column A holds nothing but blank or whitespace-only cells below the header.
EmptyInput ==
    \A r \in 2..Len(sheet.A) : \A i \in 1..Len(sheet.A[r]) : sheet.A[r][i] \in Whitespace

\* The columns the write calls logged in this iteration address.
WrittenColumns ==
    IF IsMain
    THEN {Target(writes[w].updates[i]).col : w \in 1..Len(writes), i \in 1..Len(IssuedUpdates)}
    ELSE {a1_range(writes[w].range)[1].col : w \in 1..Len(writes)}

\* C5 (column frame, both scripts): every write call of the loop addresses column
\* C, or column B in papertrader_updater.py, and no step of the loop changes a cell
\* of column A, of column D or, in main.py, of column B.
C5_ColumnFrame ==
    /\ [](WrittenColumns \subseteq (IF IsMain THEN {"C"} ELSE {"B", "C"}))
    /\ [][pc # "boot" =>
            /\ sheet'.A = sheet.A
            /\ sheet'.D = sheet.D
            /\ IsMain => sheet'.B = sheet.B]_vars

\* The updater stamped column B and priced column C of row 2; columns A and D still
\* hold what the user left there.
C5_Witness ==
    /\ ~IsMain
    /\ pc = "sleep"
    /\ Len(writes) = 2
    /\ ~writes[1].raised
    /\ ~writes[2].raised
    /\ sheet.B[2] \in Timestamps
    /\ sheet.C[2] \in Numeric
    /\ sheet.A[2] = <<"A", "A", "P", "L">>
    /\ sheet.D[2] = "memo"

\* C6 (no-op on empty input, both scripts): with a column A that holds only the
\* header, or only blank and whitespace-only cells below it, an iteration requests
\* nothing from the provider, issues no write call and, once column A is read, is
\* on the idle path with no exception caught.
C6_EmptyInputNoOp ==
    EmptyInput =>
        /\ calls = <<>>
        /\ writes = <<>>
        /\ pc \in {"boot", "exited", "loop", "read", "idle", "sleep", "done"}
        /\ pc = "sleep" => caught = "col_values"
        /\ pc = "idle" => caught = "" /\ symbols = <<>>

\* A column with a whitespace-only cell and no ticker: the iteration idles.
C6_Witness ==
    /\ EmptyInput
    /\ pc = "idle"
    /\ \E r \in 2..Len(sheet.A) : sheet.A[r] = Space
    /\ calls = <<>>
    /\ writes = <<>>
    /\ caught = ""

\* C7 (idempotence, main.py): when the second of two consecutive iterations read
\* the same column A and got the same outcome from every request as the first, and
\* neither ended in the catch-all, it issued the same write call with the same
\* updates and left the sheet as the first left it.
C7_Idempotence ==
    (IsMain /\ pc = "sleep" /\ prev.caught = "" /\ caught = ""
        /\ col_a = prev.col /\ calls = prev.calls) =>
        /\ writes = prev.writes
        /\ sheet = prev.sheet

\* Two iterations with the same requests and outcomes, a price among the updates.
C7_Witness ==
    /\ IsMain
    /\ pc = "sleep"
    /\ prev.caught = ""
    /\ caught = ""
    /\ calls # <<>>
    /\ calls = prev.calls
    /\ Len(writes) = 1
    /\ writes = prev.writes
    /\ \E i \in 1..Len(IssuedUpdates) : IssuedUpdates[i].values \in Numeric
    /\ \E i \in 1..Len(IssuedUpdates) : IssuedUpdates[i].values = ""
    /\ sheet = prev.sheet

\* The write calls of this iteration all returned and the sheet shows their values.
Written ==
    /\ writes # <<>>
    /\ \A w \in 1..Len(writes) : ~writes[w].raised
    /\ IF IsMain
       THEN \A i \in 1..Len(IssuedUpdates) :
                sheet.C[Target(IssuedUpdates[i]).row] = IssuedUpdates[i].values
       ELSE /\ Len(writes) = 2
            /\ \A i \in 1..Len(symbols) : sheet.C[i + 1] = writes[2].values[i]

\* C8 (cycle error isolation, both scripts, no signal received): an exception of an
\* iteration takes the process to the sleep at the end of the iteration and from
\* there to the loop test and the next read; the process is never in a terminal
\* state once it has started; and an iteration that follows a failed one and meets
\* no failure itself has written its updates.
C8_CycleErrorIsolation ==
    /\ [][(caught = "" /\ caught' # "") => pc' = "sleep"]_vars
    /\ [][(pc = "sleep" => pc' = "loop") /\ ((pc = "loop" /\ _running) => pc' = "read")]_vars
    /\ []((_running /\ startup \in {"ok", "no_worksheet"}) => pc \notin {"exited", "done"})
    /\ []((pc = "sleep" /\ prev.caught \notin {"", "none"} /\ caught = "") => Written)

\* The first iteration ended in the catch-all, the second wrote a price.
C8_Witness ==
    /\ pc = "sleep"
    /\ prev.caught = "col_values"
    /\ caught = ""
    /\ Written
    /\ \E r \in 2..Len(sheet.C) : sheet.C[r] \in Numeric

\* C9 (shutdown liveness): once the flag is false the process reaches the terminal
\* state after the loop, wherever the signal found it.
C9_ShutdownLiveness == (~_running) ~> (pc = "done")

\* The process left the loop after a signal and ended normally.
C9_Witness ==
    /\ ~_running
    /\ pc = "done"
    /\ exit_code = 0

\* C10 (invalid chunk size): with CHUNK_SIZE <= 0 and tickers in column A the
\* iteration issues no write call and ends in the catch-all on the error of the
\* batch planning.
C10_InvalidChunkFatal ==
    (CHUNK_SIZE <= 0 /\ symbols # <<>>) =>
        /\ writes = <<>>
        /\ calls = <<>>
        /\ pc = "sleep" => caught = "range"

\* What the extraction steps make of a cell: trimmed, upper-cased, one leading "$"
\* removed.
Extracted(cell) == drop_dollar(upper(strip(cell)))

\* C11 (extraction, main.py): every (row_index, symbol) pair of the iteration has a
\* row_index of 2 or more and a non-empty symbol, the text of the cell of that row
\* trimmed, upper-cased and without one leading "$"; a cell of which these steps
\* leave nothing (blank, whitespace only, or just "$") yields no pair, and row 1
\* yields none.
C11_Extraction ==
    IsMain =>
        /\ \A i \in 1..Len(rows_syms) :
              /\ rows_syms[i].row >= 2
              /\ rows_syms[i].row <= Len(col_a)
              /\ rows_syms[i].sym # <<>>
              /\ rows_syms[i].sym = Extracted(col_a[rows_syms[i].row])
        /\ \A r \in 2..Len(col_a) :
              Extracted(col_a[r]) = <<>> => \A i \in 1..Len(rows_syms) : rows_syms[i].row # r
        /\ \A i \in 1..Len(rows_syms) : rows_syms[i].row # 1

\* A row shows the timestamp of an iteration of the updater beside the price an
\* earlier run left there ("9.99", see sheet_with): part of the updates of the
\* iteration is applied, part is not.
StampedBesideStalePrice ==
    \E r \in 2..Len(sheet.C) : sheet.B[r] \in Timestamps /\ sheet.C[r] = "9.99"

\* C12 (single batched write, both scripts): an iteration issues at most one write
\* call, which carries all its cell updates, so no state of the sheet, a failed
\* write call included, shows the timestamp column stamped while the price column
\* holds the earlier values.
C12_SingleBatchedWrite ==
    /\ Len(writes) <= 1
    /\ ~StampedBesideStalePrice

\* C13 (row alignment, papertrader_updater.py): once the two write calls of an
\* iteration have returned, every row R whose column A cell (as read, blank cells
\* between tickers included) holds a ticker shows the timestamp in column B and, in
\* column C, the price_map entry of that ticker, blank when there is none.
C13_RowAlignment ==
    (~IsMain /\ pc = "sleep" /\ Len(writes) = 2 /\ ~writes[1].raised /\ ~writes[2].raised) =>
        \A R \in PopulatedRows(col_a) :
            LET ticker == upper(strip(col_a[R]))
            IN /\ sheet.B[R] \in Timestamps
               /\ sheet.C[R] = (IF ticker \in DOMAIN prices THEN prices[ticker] ELSE "")

\* C14 (startup failure): with the provider credentials or the sheet credentials
\* missing, or a sheet that cannot be opened, the process is before the loop or
\* has terminated with a non-zero outcome; it has read no column, requested
\* nothing and written nothing; only such a process exits with a non-zero outcome,
\* and a process that left the loop through the flag ended with outcome 0.
C14_StartupFatal ==
    /\ startup \in {"no_alpaca_keys", "no_google_creds", "open_fails"} =>
          /\ pc \in {"boot", "exited"}
          /\ pc = "exited" => exit_code > 0
          /\ col_a = <<>>
          /\ calls = <<>>
          /\ writes = <<>>
          /\ sheet = new_worksheet(Blank, "", "")
    /\ pc = "exited" => startup \in {"no_alpaca_keys", "no_google_creds", "open_fails"}
    /\ pc = "done" => exit_code = 0 /\ ~_running

\* The sheet could not be opened: the process ended with outcome 1 and the sheet
\* is as it was.
C14_Witness ==
    /\ startup = "open_fails"
    /\ pc = "exited"
    /\ exit_code = 1
    /\ writes = <<>>
    /\ sheet = new_worksheet(Blank, "", "")

\* C15 (PriceMap keys, main.py): whatever mapping the provider returns for a batch,
\* keys that were not requested or that differ in case included, every key of the
\* price map is one of the symbols extracted from column A in the iteration.
C15_PriceMapKeys == IsMain => DOMAIN prices \subseteq Range(symbols)

\* The request k of this iteration returned a usable price for the symbol.
Priced(k, sym) ==
    /\ ~calls[k].raised
    /\ sym \in DOMAIN calls[k].result
    /\ calls[k].result[sym] \in Numeric

\* C16 (no overwrite across batches, both scripts): once a request of the iteration
\* has put a symbol into the price map, no later request of the iteration asks for
\* that symbol again, and its entry stays the price that request returned.
C16_NoOverwrite ==
    \A k \in 1..Len(calls) : \A sym \in Range(calls[k].batch) :
        Priced(k, sym) =>
            /\ \A l \in (k + 1)..Len(calls) : sym \notin Range(calls[l].batch)
            /\ sym \in DOMAIN prices
            /\ (\A j \in 1..(k - 1) : ~Priced(j, sym)) => prices[sym] = calls[k].result[sym]

\* The request k of this iteration returned a trade without a usable price for the
\* symbol.
Unparsable(k, sym) ==
    /\ ~calls[k].raised
    /\ sym \in DOMAIN calls[k].result
    /\ calls[k].result[sym] \notin Numeric

\* The values the iteration's write of column C carries, one per ticker of the
\* iteration, once that write call has been issued.
PriceValues ==
    IF IsMain
    THEN IF Len(writes) >= 1
         THEN [i \in 1..Len(IssuedUpdates) |-> IssuedUpdates[i].values] ELSE <<>>
    ELSE IF Len(writes) >= 2 THEN writes[2].values ELSE <<>>

\* C17 (per-symbol degradation, both scripts): for a request that returned, a
\* symbol whose trade has no usable price is not in the price map and its rows get
\* blank updates, every symbol of the same batch with a parsable price is in the
\* price map with that price, and the iteration goes on to its write as after any
\* returned request.
C17_PerSymbolDegradation ==
    \A k \in 1..Len(calls) : ~calls[k].raised =>
        /\ caught \in {"", "batch_update", "update"}
        /\ pc = "sleep" => writes # <<>>
        /\ \A sym \in DOMAIN calls[k].result :
              /\ Priced(k, sym) => sym \in DOMAIN prices /\ prices[sym] = calls[k].result[sym]
              /\ Unparsable(k, sym) =>
                    /\ sym \notin DOMAIN prices
                    /\ \A i \in 1..Len(PriceValues) : symbols[i] = sym => PriceValues[i] = ""

\* C18 (cooperative shutdown ordering, main.py): the delivery of the signal changes
\* the flag and nothing else, so the call in flight goes on; the process leaves
\* the loop only at the loop test, with the flag down, and the flag stays down; a
\* write call issued after the signal is the first of its iteration and ends it
\* (so it is the only one); and from the sleep on, with the flag down, the process
\* only goes to the loop test and out: no column read, no request, no write.
C18_ShutdownOrdering ==
    /\ [][(IsMain /\ _running /\ ~_running') =>
            /\ pc' = pc
            /\ sheet' = sheet
            /\ col_a' = col_a
            /\ calls' = calls
            /\ writes' = writes]_vars
    /\ [][(IsMain /\ pc # "done" /\ pc' = "done") => (pc = "loop" /\ ~_running)]_vars
    /\ [][~_running => ~_running']_vars
    /\ [][(IsMain /\ ~_running /\ Len(writes') > Len(writes)) =>
            (writes = <<>> /\ Len(writes') = 1 /\ pc' = "sleep")]_vars
    /\ [][(IsMain /\ ~_running /\ pc \in {"sleep", "idle", "loop"}) =>
            /\ pc' = (IF pc = "loop" THEN "done" ELSE "loop")
            /\ sheet' = sheet
            /\ col_a' = <<>>
            /\ calls' = <<>>
            /\ writes' = <<>>]_vars

\* The signal came after the requests of an iteration and before its write: the
\* flag is down, the fetch is over and the write call is about to be issued.
C18_Witness ==
    /\ IsMain
    /\ ~_running
    /\ fetched
    /\ calls # <<>>
    /\ writes = <<>>

C20_FailedCycleFrame ==
    /\ []((IsMain /\ caught \in {"col_values", "range"}) => writes = <<>>)
    /\ []((IsMain /\ caught # "") => \A w \in 1..Len(writes) : writes[w].raised)
    /\ [][(IsMain /\ caught = "" /\ caught' # "") => sheet' = sheet]_vars
    /\ []((IsMain /\ pc = "sleep" /\ caught # "" /\ prev.caught # "none") =>
            sheet = prev.sheet)

\* The first iteration wrote a price; the batch write of the second failed, and
\* the sheet still shows what the first wrote.
C20_Witness ==
    /\ IsMain
    /\ pc = "sleep"
    /\ prev.caught = ""
    /\ Len(prev.writes) = 1
    /\ ~prev.writes[1].raised
    /\ caught = "batch_update"
    /\ Len(writes) = 1
    /\ writes[1].raised
    /\ writes[1].updates # prev.writes[1].updates
    /\ sheet = prev.sheet
    /\ \E i \in 1..Len(prev.writes[1].updates) :
          /\ prev.writes[1].updates[i].values \in Numeric
          /\ sheet.C[Target(prev.writes[1].updates[i]).row] = prev.writes[1].updates[i].values

====
